---- MODULE Spec2Model ----
(***************************************************************************)
(* Capture server (controller/act_recorder/act_recorder.py) and alignment  *)
(* engine (postprocess/process_recordings.py) of mc-multiplayer-data.      *)
(*                                                                         *)
(* The sub-models share the module:                                        *)
(*   SpecMatch   _match_actions_to_frames applied to bounded inputs        *)
(*   SpecEncode  _write_frames_by_index, one step per loop iteration       *)
(*   SpecAlign   align_recording: extraction, classification, matcher,     *)
(*               re-encoder, metadata                                      *)
(*   Spec        the accept loop / socket reader thread and the            *)
(*               process_frame_worker thread of act_recorder.py            *)
(*   SpecStream  the same server with steadily timed clients               *)
(*   FairSpec    Spec with both threads scheduled fairly                   *)
(*   SpecCodec   recvint / recvall reading one frame from the socket       *)
(* Times of the matcher inputs of SpecMatch are integers in half-second    *)
(* ticks, times of SpecAlign are integers in seconds, times of the capture *)
(* server are integers in milliseconds.                                    *)
(***************************************************************************)
EXTENDS Integers, Sequences, FiniteSets, TLC

VARIABLES
    \* ---- stream matcher (_match_actions_to_frames)
    m_pc,               \* "idle" | "input" | "matched"
    action_times,       \* [float(a["epochTime"]) for a in actions]
    frame_timestamps,   \* sorted per-frame PTS from _extract_frame_timestamps
    frame_indices,      \* returned list of frame indices (0-based)
    diagnostics,        \* returned diagnostics dict
    fps,                \* float(camera_meta["fps"]); 0 before it is loaded
    \* ---- frame re-encoder (_write_frames_by_index)
    e_pc,               \* "idle" | "start" | "loop" | "done" | "error"
    e_frame_indices,    \* the frame_indices argument
    total_frames,       \* int(cap.get(cv2.CAP_PROP_FRAME_COUNT))
    decodable,          \* number of frames cap.read() can deliver
    e_i,                \* loop position i (0-based)
    last_frame_idx,     \* index of the cached frame, -1 initially
    last_frame,         \* cached frame (its source index), -1 for None
    cap_pos,            \* read position of the cv2.VideoCapture
    written,            \* frames handed to writer.write, in order
    seeks_count,
    reads_count,
    cache_hits,
    e_error,            \* <<>> or <<what the raised error's message names>>
    writer_state,       \* cv2.VideoWriter on output_path: "none" | "open"
                        \* | "released"
    \* ---- capture server: accept loop / socket reader (main thread)
    r_pc,               \* position of the main thread in the accept loop
    conns,              \* connections accepted so far
    viewer_rendering_disabled,  \* bool(args.viewer_rendering_disabled)
    conn_state,         \* "none" | "open" | "closed" (conn.close() called)
    header_data,        \* received header payload, <<>> before it arrives
    episode_id,
    img_count,
    retcode,
    pos,                \* position record being received, <<>> if none
    client,             \* what the connected clients send: records per
                        \* connection and their renderTime values
    \* ---- capture server: process_frame_worker thread and its queue
    w_pc,               \* "none" | "loop" | "finalize" | "video" | "trace"
                        \* | "meta" | "done" | "crashed"
    frame_queue,        \* Queue(): FIFO of [img, pos] items and the sentinel
    action_data,
    frames,
    first_render_time,  \* <<>> for None, <<t>> otherwise
    episode_start_epoch,\* <<>> for None, <<t>> otherwise
    render_time_is_epoch,
    video_fps,          \* <<>> before it is computed, <<[num, den]>> after
    out_video,          \* <name>.mp4: <<>> or <<[fps, frames]>>
    out_trace,          \* <name>.json: <<>> or <<action_data>>
    out_meta,           \* <name>_meta.json: <<>> or <<metadata>>
    \* ---- history of the current connection (not program state)
    wire_end,           \* how the client's stream ended: "none" | "zero"
                        \* | "eof" | "short" | "malformed" | "img_zero"
                        \* | "img_eof" | "img_short"
    recv_log,           \* [img, pos] pairs completely received, in order
    deq_log,            \* items the worker took from the queue, in order
    \* ---- wire codec (recvall / recvint) reading one frame
    c_pc,               \* "idle" | "send" | "len" | "payload" | "frame"
                        \* | "terminator" | "eof" | "error"
    c_payload,          \* payload handed to the sender
    c_sent,             \* all bytes the sender wrote before it closed
    c_wire,             \* bytes written by the sender and not yet received
    c_recvs,            \* number of sock.recv calls that returned data
    c_count,            \* recvall: count, bytes still to read
    c_buf,              \* recvall: buf
    c_length,           \* result of recvint, -1 before
    c_result,           \* payload returned by recvall, <<>> before
    \* ---- align_recording
    a_pc,               \* "idle" | "start" | "classified" | "matching"
                        \* | "encoding" | "done" | "error"
    a_actions,          \* epochTime of the loaded actions
    a_wallclock_flag,   \* camera_meta.get("wallclock_timestamps")
    a_extracted,        \* _extract_frame_timestamps: <<>> for None, <<ts>>
    a_error,            \* <<>> or <<the exception raised by align_recording>>
    out_aligned_meta    \* output_metadata_path: <<>> or <<metadata>>

mvars == <<m_pc, action_times, frame_timestamps, frame_indices, diagnostics,
           fps>>

evars == <<e_pc, e_frame_indices, total_frames, decodable, e_i, last_frame_idx,
           last_frame, cap_pos, written, seeks_count, reads_count, cache_hits,
           e_error, writer_state>>

rvars == <<r_pc, conns, viewer_rendering_disabled, conn_state, header_data,
           episode_id, img_count, retcode, pos, client>>

wvars == <<w_pc, frame_queue, action_data, frames, first_render_time,
           episode_start_epoch, render_time_is_epoch, video_fps, out_video,
           out_trace, out_meta>>

hvars == <<wire_end, recv_log, deq_log>>

svars == <<rvars, wvars, hvars>>

cvars == <<c_pc, c_payload, c_sent, c_wire, c_recvs, c_count, c_buf, c_length,
           c_result>>

avars == <<a_pc, a_actions, a_wallclock_flag, a_extracted, a_error,
           out_aligned_meta>>

vars == <<mvars, evars, svars, cvars, avars>>

\* ------------------------------------------------------------------------
\* Bounds of the matcher inputs
\* ------------------------------------------------------------------------
MaxActions == 4
MaxFrames == 3
MaxTime == 6
\* Bound of the re-encoder's request list
MaxRequests == 4
\* Bounds of the capture server: connections accepted, records per connection
MaxConns == 2
MaxRecords == 2

\* ------------------------------------------------------------------------
\* Generic helpers
\* ------------------------------------------------------------------------
Range(s) == {s[k] : k \in 1..Len(s)}

IsAscending(s) == \A k \in 1..(Len(s) - 1) : s[k] <= s[k + 1]

SeqsUpTo(S, n) == UNION {[1..k -> S] : k \in 0..n}

AscendingSeqs(S, n) == {s \in SeqsUpTo(S, n) : IsAscending(s)}

\* ------------------------------------------------------------------------
\* _match_actions_to_frames  (process_recordings.py:145-262)
\* ------------------------------------------------------------------------
RECURSIVE AdvanceFramePtr(_, _, _)
\* while frame_ptr < n_frames and frame_timestamps[frame_ptr] < action_time:
\*     frame_ptr += 1
AdvanceFramePtr(ft, frame_ptr, action_time) ==
    IF frame_ptr < Len(ft) /\ ft[frame_ptr + 1] < action_time
    THEN AdvanceFramePtr(ft, frame_ptr + 1, action_time)
    ELSE frame_ptr

RECURSIVE MatchLoop(_, _, _, _, _, _)

\* Variant: the video is treated as looping, the pointer wraps to frame 0 when
\* the frames are exhausted instead of stopping the match
MatchLoopWrap(at, ft, action_idx, frame_ptr, idxs, deltas) ==
    IF action_idx >= Len(at)
    THEN [frame_indices |-> idxs, time_deltas |-> deltas,
          unmatched_actions_end |-> 0, frame_ptr |-> frame_ptr]
    ELSE LET p == AdvanceFramePtr(ft, frame_ptr, at[action_idx + 1])
             q == IF p >= Len(ft) THEN 0 ELSE p
         IN IF Len(ft) = 0
            THEN [frame_indices |-> idxs, time_deltas |-> deltas,
                  unmatched_actions_end |-> Len(at) - action_idx,
                  frame_ptr |-> p]
            ELSE MatchLoop(at, ft, action_idx + 1, q, Append(idxs, q),
                           Append(deltas, ft[q + 1] - at[action_idx + 1]))

\* Variant: the superseded matcher that consumes a frame after each match
MatchLoopAdvancing(at, ft, action_idx, frame_ptr, idxs, deltas) ==
    IF action_idx >= Len(at)
    THEN [frame_indices |-> idxs, time_deltas |-> deltas,
          unmatched_actions_end |-> 0, frame_ptr |-> frame_ptr]
    ELSE LET p == AdvanceFramePtr(ft, frame_ptr, at[action_idx + 1])
         IN IF p >= Len(ft)
            THEN [frame_indices |-> idxs, time_deltas |-> deltas,
                  unmatched_actions_end |-> Len(at) - action_idx,
                  frame_ptr |-> p]
            ELSE MatchLoop(at, ft, action_idx + 1, p + 1, Append(idxs, p),
                           Append(deltas, ft[p + 1] - at[action_idx + 1]))

\* Variant: the unmatched-at-end count leaves out the action that hit the end
MatchLoopOffByOne(at, ft, action_idx, frame_ptr, idxs, deltas) ==
    IF action_idx >= Len(at)
    THEN [frame_indices |-> idxs, time_deltas |-> deltas,
          unmatched_actions_end |-> 0, frame_ptr |-> frame_ptr]
    ELSE LET p == AdvanceFramePtr(ft, frame_ptr, at[action_idx + 1])
         IN IF p >= Len(ft)
            THEN [frame_indices |-> idxs, time_deltas |-> deltas,
                  unmatched_actions_end |-> Len(at) - action_idx - 1,
                  frame_ptr |-> p]
            ELSE MatchLoop(at, ft, action_idx + 1, p, Append(idxs, p),
                           Append(deltas, ft[p + 1] - at[action_idx + 1]))

\* Variant: actions before the first frame are dropped instead of matched
MatchLoopSkipEarly(at, ft, action_idx, frame_ptr, idxs, deltas) ==
    IF action_idx >= Len(at)
    THEN [frame_indices |-> idxs, time_deltas |-> deltas,
          unmatched_actions_end |-> 0, frame_ptr |-> frame_ptr]
    ELSE LET p == AdvanceFramePtr(ft, frame_ptr, at[action_idx + 1])
         IN IF p >= Len(ft)
            THEN [frame_indices |-> idxs, time_deltas |-> deltas,
                  unmatched_actions_end |-> Len(at) - action_idx,
                  frame_ptr |-> p]
            ELSE IF at[action_idx + 1] < ft[1]
                 THEN MatchLoop(at, ft, action_idx + 1, p, idxs, deltas)
                 ELSE MatchLoop(at, ft, action_idx + 1, p, Append(idxs, p),
                                Append(deltas, ft[p + 1] - at[action_idx + 1]))

\* for action_idx, action_time in enumerate(action_times): ... (lines 176-192)
\* action_idx and frame_ptr are 0-based as in the source; at and ft are
\* 1-based sequences, so ft[p + 1] is frame_timestamps[p].
MatchLoop(at, ft, action_idx, frame_ptr, idxs, deltas) ==
    IF action_idx >= Len(at)
    THEN [frame_indices |-> idxs, time_deltas |-> deltas,
          unmatched_actions_end |-> 0, frame_ptr |-> frame_ptr]
    ELSE LET p == AdvanceFramePtr(ft, frame_ptr, at[action_idx + 1])
         IN IF p >= Len(ft)
            THEN \* unmatched_actions_end = n_actions - action_idx; break
                 [frame_indices |-> idxs, time_deltas |-> deltas,
                  unmatched_actions_end |-> Len(at) - action_idx,
                  frame_ptr |-> p]
            ELSE \* record the match, frame_ptr is NOT advanced
                 MatchLoop(at, ft, action_idx + 1, p, Append(idxs, p),
                           Append(deltas, ft[p + 1] - at[action_idx + 1]))

RECURSIVE CountLeadingBefore(_, _, _)
\* for t in action_times: if t < frame_timestamps[0]: n += 1 else: break
CountLeadingBefore(at, k, first_frame_time) ==
    IF k > Len(at) THEN 0
    ELSE IF at[k] < first_frame_time
         THEN 1 + CountLeadingBefore(at, k + 1, first_frame_time)
         ELSE 0

\* Variant: an action exactly at the first frame time counts as before it
UnmatchedActionsStartInclusive(at, ft) ==
    IF Len(ft) > 0 /\ Len(at) > 0
    THEN CountLeadingBefore(at, 1, ft[1] + 1)
    ELSE 0

\* unmatched_actions_start (lines 201-208)
UnmatchedActionsStart(at, ft) ==
    IF Len(ft) > 0 /\ Len(at) > 0
    THEN CountLeadingBefore(at, 1, ft[1])
    ELSE 0

\* Counter(frame_indices)[idx]
FrameUsage(idxs, idx) == Cardinality({k \in 1..Len(idxs) : idxs[k] = idx})

\* Variant: counts the extra uses instead of the reused frames
DuplicateFrameCountExtraUses(idxs) == Len(idxs) - Cardinality(Range(idxs))

\* len({idx: cnt for idx, cnt in frame_usage.items() if cnt > 1}) (211-212, 257)
DuplicateFrameCount(idxs) ==
    Cardinality({idx \in Range(idxs) : FrameUsage(idxs, idx) > 1})

\* Timestamps are counted in half-second ticks
TicksPerSec == 2

\* line 32: _BOUNDARY_GRACE_SEC = 10.0
BOUNDARY_GRACE_SEC == 10

\* Python's round(whole + num / den) for num >= 0, den > 0: to nearest, ties
\* to even
RoundHalfEven(whole, num, den) ==
    LET q == whole + num \div den
        r == num % den
    IN IF 2 * r < den THEN q
       ELSE IF 2 * r > den THEN q + 1
       ELSE IF q % 2 = 0 THEN q ELSE q + 1

\* line 234: gap > expected_interval * 1.8 with expected_interval = 1 / fps,
\* for a gap of g ticks: g * f * 10 > 18 * TicksPerSec, without the product
GapExceedsThreshold(g, f) == g > (18 * TicksPerSec) \div (10 * f)

\* line 242: round(gap / expected_interval) - 1 for a gap of g ticks
ExpectedFramesMissed(g, f) ==
    RoundHalfEven((g \div TicksPerSec) * f, (g % TicksPerSec) * f,
                  TicksPerSec) - 1

\* lines 233-243: the local list dropped_frame_gaps, one entry per pair of
\* consecutive frames (0-based indices) whose gap exceeds the threshold and
\* whose earlier frame lies more than the grace period after rec_start
DroppedFrameGaps(ft, f) ==
    { [between_frames |-> <<i - 1, i>>,
       gap |-> ft[i + 1] - ft[i],
       expected_frames_missed |->
          ExpectedFramesMissed(ft[i + 1] - ft[i], f)] :
        i \in { j \in 1..(Len(ft) - 1) :
                  /\ GapExceedsThreshold(ft[j + 1] - ft[j], f)
                  /\ ft[j] - ft[1] > BOUNDARY_GRACE_SEC * TicksPerSec } }

\* The function's return value: (frame_indices, diagnostics)
MatchActionsToFrames(at, ft, f) ==
    LET r == MatchLoop(at, ft, 0, 0, <<>>, <<>>)
        idxs == r.frame_indices
    IN [frame_indices |-> idxs,
        diagnostics |->
          [n_actions |-> Len(at),
           n_frames |-> Len(ft),
           n_matched |-> Len(idxs),
           skipped_frames_start |-> IF Len(idxs) > 0 THEN idxs[1] ELSE 0,
           skipped_frames_end |->
              IF Len(idxs) > 0 /\ Len(ft) - 1 - idxs[Len(idxs)] > 0
              THEN Len(ft) - 1 - idxs[Len(idxs)] ELSE 0,
           unmatched_actions_start |-> UnmatchedActionsStart(at, ft),
           unmatched_actions_end |-> r.unmatched_actions_end,
           time_deltas |-> r.time_deltas,
           duplicate_frame_count |-> DuplicateFrameCount(idxs),
           dropped_frame_gaps |-> Cardinality(DroppedFrameGaps(ft, f))]]

NoDiagnostics ==
    [n_actions |-> 0, n_frames |-> 0, n_matched |-> 0,
     skipped_frames_start |-> 0, skipped_frames_end |-> 0,
     unmatched_actions_start |-> 0, unmatched_actions_end |-> 0,
     time_deltas |-> <<>>, duplicate_frame_count |-> 0,
     dropped_frame_gaps |-> 0]

\* The inputs named by the testable properties of the design document, in
\* half-second ticks: frame_times=[0,1], action_times=[0,0.5,5] and
\* frame_times=[5,6,7], action_times=[1,2,5,6]
NamedMatchInputs ==
    { [at |-> <<0, 1, 10>>, ft |-> <<0, 2>>],
      [at |-> <<2, 4, 10, 12>>, ft |-> <<10, 12, 14>>] }

\* Frame times (ticks) of recordings longer than twice the grace period
GapTimes == {0, 1, 22, 23, 27, 28, 50, 55}

\* Recordings with gaps between frames inside and outside the grace periods;
\* one action at the first frame
GapMatchInputs ==
    { [at |-> <<f[1]>>, ft |-> f] :
        f \in AscendingSeqs(GapTimes, MaxFrames + 1) \ {<<>>} }

MatchInputs ==
    { [at |-> a, ft |-> f] : a \in AscendingSeqs(0..MaxTime, MaxActions),
                             f \in AscendingSeqs(0..MaxTime, MaxFrames) }
    \cup NamedMatchInputs
    \cup GapMatchInputs

\* Frame rates of the camera metadata (frames per second)
CameraFps == {1, 2}

\* ------------------------------------------------------------------------
\* _write_frames_by_index  (process_recordings.py:271-344)
\* A source frame is identified by its index in the recording; written holds
\* records [pos |-> requested position i, frame |-> source frame written].
\* ------------------------------------------------------------------------
\* The server process is not running (the alignment engine is offline)
ServerIdle ==
    /\ r_pc = "off"
    /\ conns = 0
    /\ viewer_rendering_disabled = FALSE
    /\ client = "none"
    /\ conn_state = "none"
    /\ header_data = <<>>
    /\ episode_id = 0
    /\ img_count = 0
    /\ retcode = 0
    /\ pos = <<>>
    /\ w_pc = "none"
    /\ frame_queue = <<>>
    /\ action_data = <<>>
    /\ frames = <<>>
    /\ first_render_time = <<>>
    /\ episode_start_epoch = <<>>
    /\ render_time_is_epoch = FALSE
    /\ video_fps = <<>>
    /\ out_video = <<>>
    /\ out_trace = <<>>
    /\ out_meta = <<>>
    /\ wire_end = "none"
    /\ recv_log = <<>>
    /\ deq_log = <<>>

MatchIdle ==
    /\ m_pc = "idle"
    /\ action_times = <<>>
    /\ frame_timestamps = <<>>
    /\ frame_indices = <<>>
    /\ diagnostics = NoDiagnostics
    /\ fps = 0

EncodeIdle ==
    /\ e_pc = "idle"
    /\ e_frame_indices = <<>>
    /\ total_frames = 0
    /\ decodable = 0
    /\ e_i = 0
    /\ last_frame_idx = -1
    /\ last_frame = -1
    /\ cap_pos = 0
    /\ written = <<>>
    /\ seeks_count = 0
    /\ reads_count = 0
    /\ cache_hits = 0
    /\ e_error = <<>>
    /\ writer_state = "none"

CodecIdle ==
    /\ c_pc = "idle"
    /\ c_payload = <<>>
    /\ c_sent = <<>>
    /\ c_wire = <<>>
    /\ c_recvs = 0
    /\ c_count = 0
    /\ c_buf = <<>>
    /\ c_length = -1
    /\ c_result = <<>>

AlignIdle ==
    /\ a_pc = "idle"
    /\ a_actions = <<>>
    /\ a_wallclock_flag = FALSE
    /\ a_extracted = <<>>
    /\ a_error = <<>>
    /\ out_aligned_meta = <<>>

\* Requests may be out of range (-1, total_frames) and in any order; the
\* container's reported frame count may exceed what the decoder delivers.
InitEncode ==
    /\ MatchIdle
    /\ ServerIdle
    /\ CodecIdle
    /\ AlignIdle
    /\ e_pc = "start"
    /\ e_frame_indices \in SeqsUpTo(-1..MaxFrames, MaxRequests)
    /\ total_frames \in 0..MaxFrames
    /\ decodable \in {d \in {total_frames - 1, total_frames} : d >= 0}
    /\ e_i = 0
    /\ last_frame_idx = -1
    /\ last_frame = -1
    /\ cap_pos = 0
    /\ written = <<>>
    /\ seeks_count = 0
    /\ reads_count = 0
    /\ cache_hits = 0
    /\ e_error = <<>>
    /\ writer_state = "none"

\* What an error raised before the loop names: neither position nor frame
EncSetupError(kind) == <<[kind |-> kind, action |-> <<>>, frame |-> <<>>]>>

\* lines 283-305: an empty request list raises ValueError; a recording that
\* cv2.VideoCapture cannot open raises RuntimeError; otherwise the writer is
\* created on output_path (line 295)
EncStart ==
    /\ UNCHANGED <<mvars, svars, cvars, avars>>
    /\ e_pc = "start"
    /\ IF Len(e_frame_indices) = 0
       THEN /\ e_pc' = "error"
            /\ e_error' = EncSetupError("empty")
            /\ UNCHANGED writer_state
       ELSE \E opened \in BOOLEAN :
               IF opened
               THEN /\ e_pc' = "loop"
                    /\ writer_state' = "open"
                    /\ UNCHANGED e_error
               ELSE /\ e_pc' = "error"
                    /\ e_error' = EncSetupError("open")
                    /\ UNCHANGED writer_state
    /\ UNCHANGED <<e_frame_indices, total_frames, decodable, e_i,
                   last_frame_idx, last_frame, cap_pos, written, seeks_count,
                   reads_count, cache_hits>>

EncRequest == e_frame_indices[e_i + 1]

\* lines 307, 340-341: the for loop is exhausted
EncFinish ==
    /\ UNCHANGED <<mvars, svars, cvars, avars>>
    /\ e_pc = "loop"
    /\ e_i >= Len(e_frame_indices)
    /\ e_pc' = "done"
    /\ writer_state' = "released"
    /\ UNCHANGED <<e_frame_indices, total_frames, decodable, e_i,
                   last_frame_idx, last_frame, cap_pos, written, seeks_count,
                   reads_count, cache_hits, e_error>>

\* Variant: an out-of-range request is skipped and the loop goes on
EncOutOfRangeSkip ==
    /\ UNCHANGED <<mvars, svars, cvars, avars>>
    /\ e_pc = "loop"
    /\ e_i < Len(e_frame_indices)
    /\ (EncRequest < 0 \/ EncRequest >= total_frames)
    /\ e_i' = e_i + 1
    /\ UNCHANGED <<e_pc, e_frame_indices, total_frames, decodable,
                   last_frame_idx, last_frame, cap_pos, written, seeks_count,
                   reads_count, cache_hits, e_error, writer_state>>

\* lines 308-313: out-of-range request aborts
EncOutOfRange ==
    /\ UNCHANGED <<mvars, svars, cvars, avars>>
    /\ e_pc = "loop"
    /\ e_i < Len(e_frame_indices)
    /\ (EncRequest < 0 \/ EncRequest >= total_frames)
    /\ e_pc' = "error"
    /\ e_error' = <<[kind |-> "range", action |-> <<e_i>>,
                     frame |-> <<EncRequest>>]>>
    /\ writer_state' = "released"
    /\ UNCHANGED <<e_frame_indices, total_frames, decodable, e_i,
                   last_frame_idx, last_frame, cap_pos, written, seeks_count,
                   reads_count, cache_hits>>

\* Variant: the cache hit is counted but the cached frame is not written
EncCacheHitNoWrite ==
    /\ UNCHANGED <<mvars, svars, cvars, avars>>
    /\ e_pc = "loop"
    /\ e_i < Len(e_frame_indices)
    /\ ~(EncRequest < 0 \/ EncRequest >= total_frames)
    /\ EncRequest = last_frame_idx /\ last_frame # -1
    /\ cache_hits' = cache_hits + 1
    /\ e_i' = e_i + 1
    /\ UNCHANGED <<e_pc, e_frame_indices, total_frames, decodable,
                   last_frame_idx, last_frame, cap_pos, written, seeks_count,
                   reads_count, e_error, writer_state>>

\* Variant: a duplicate request is decoded again from the read position
EncCacheHitDecoding ==
    /\ UNCHANGED <<mvars, svars, cvars, avars>>
    /\ e_pc = "loop"
    /\ e_i < Len(e_frame_indices)
    /\ ~(EncRequest < 0 \/ EncRequest >= total_frames)
    /\ EncRequest = last_frame_idx /\ last_frame # -1
    /\ written' = Append(written, [pos |-> e_i, frame |-> cap_pos])
    /\ cap_pos' = cap_pos + 1
    /\ reads_count' = reads_count + 1
    /\ e_i' = e_i + 1
    /\ UNCHANGED <<e_pc, e_frame_indices, total_frames, decodable,
                   last_frame_idx, last_frame, seeks_count, cache_hits,
                   e_error, writer_state>>

\* lines 316-318: duplicate request, the cached frame is written again
EncCacheHit ==
    /\ UNCHANGED <<mvars, svars, cvars, avars>>
    /\ e_pc = "loop"
    /\ e_i < Len(e_frame_indices)
    /\ ~(EncRequest < 0 \/ EncRequest >= total_frames)
    /\ EncRequest = last_frame_idx /\ last_frame # -1
    /\ written' = Append(written, [pos |-> e_i, frame |-> last_frame])
    /\ cache_hits' = cache_hits + 1
    /\ e_i' = e_i + 1
    /\ UNCHANGED <<e_pc, e_frame_indices, total_frames, decodable,
                   last_frame_idx, last_frame, cap_pos, seeks_count,
                   reads_count, e_error, writer_state>>

\* lines 326-338: ret, frame = cap.read() at position rpos, then write or abort
EncRead(rpos) ==
    /\ reads_count' = reads_count + 1
    /\ IF rpos < decodable
       THEN /\ written' = Append(written, [pos |-> e_i, frame |-> rpos])
            /\ last_frame_idx' = EncRequest
            /\ last_frame' = rpos
            /\ cap_pos' = rpos + 1
            /\ e_i' = e_i + 1
            /\ UNCHANGED <<e_pc, e_error, writer_state>>
       ELSE /\ e_pc' = "error"
            /\ e_error' = <<[kind |-> "read", action |-> <<>>,
                             frame |-> <<EncRequest>>]>>
            /\ writer_state' = "released"
            /\ cap_pos' = rpos
            /\ UNCHANGED <<written, last_frame_idx, last_frame, e_i>>

\* Variant: every decode is preceded by a seek
EncSequentialReadSeeking ==
    /\ UNCHANGED <<mvars, svars, cvars, avars>>
    /\ e_pc = "loop"
    /\ e_i < Len(e_frame_indices)
    /\ ~(EncRequest < 0 \/ EncRequest >= total_frames)
    /\ ~(EncRequest = last_frame_idx /\ last_frame # -1)
    /\ EncRequest = last_frame_idx + 1
    /\ seeks_count' = seeks_count + 1
    /\ EncRead(EncRequest)
    /\ UNCHANGED <<e_frame_indices, total_frames, decodable, cache_hits>>

\* lines 319-338 with frame_idx == last_frame_idx + 1: sequential read, no seek
EncSequentialRead ==
    /\ UNCHANGED <<mvars, svars, cvars, avars>>
    /\ e_pc = "loop"
    /\ e_i < Len(e_frame_indices)
    /\ ~(EncRequest < 0 \/ EncRequest >= total_frames)
    /\ ~(EncRequest = last_frame_idx /\ last_frame # -1)
    /\ EncRequest = last_frame_idx + 1
    /\ EncRead(cap_pos)
    /\ UNCHANGED <<e_frame_indices, total_frames, decodable, seeks_count,
                   cache_hits>>

\* lines 319-338 with frame_idx != last_frame_idx + 1:
\* cap.set(cv2.CAP_PROP_POS_FRAMES, frame_idx) and then read
EncSeekRead ==
    /\ UNCHANGED <<mvars, svars, cvars, avars>>
    /\ e_pc = "loop"
    /\ e_i < Len(e_frame_indices)
    /\ ~(EncRequest < 0 \/ EncRequest >= total_frames)
    /\ ~(EncRequest = last_frame_idx /\ last_frame # -1)
    /\ EncRequest # last_frame_idx + 1
    /\ seeks_count' = seeks_count + 1
    /\ EncRead(EncRequest)
    /\ UNCHANGED <<e_frame_indices, total_frames, decodable, cache_hits>>

NextEncode ==
    \/ EncStart
    \/ EncFinish
    \/ EncOutOfRange
    \/ EncCacheHit
    \/ EncSequentialRead
    \/ EncSeekRead

InitMatch ==
    /\ EncodeIdle
    /\ ServerIdle
    /\ CodecIdle
    /\ AlignIdle
    /\ m_pc = "input"
    /\ \E inp \in MatchInputs :
          /\ action_times = inp.at
          /\ frame_timestamps = inp.ft
    /\ frame_indices = <<>>
    /\ diagnostics = NoDiagnostics
    /\ fps \in CameraFps

\* frame_indices, diagnostics = _match_actions_to_frames(actions, frame_timestamps, fps)
Match ==
    /\ m_pc = "input"
    /\ LET res == MatchActionsToFrames(action_times, frame_timestamps, fps)
       IN /\ frame_indices' = res.frame_indices
          /\ diagnostics' = res.diagnostics
    /\ m_pc' = "matched"
    /\ UNCHANGED <<action_times, frame_timestamps, fps>>
    /\ UNCHANGED <<evars, svars, cvars, avars>>

NextMatch == Match

SpecMatch == InitMatch /\ [][NextMatch]_vars

SpecEncode == InitEncode /\ [][NextEncode]_vars

\* ------------------------------------------------------------------------
\* Capture server  (controller/act_recorder/act_recorder.py)
\* Times are integers in milliseconds. TLC's integers are 32 bit, so the
\* epoch-millisecond magnitudes are scaled down: RenderEpochThreshold stands
\* for the 1e12 of line 42 and WallClockMs for the values of time.time().
\* ------------------------------------------------------------------------
RenderEpochThreshold == 1000000
MaxVideoFps == 20

WallClockMs == {1700000}

\* renderTime values a client may send: relative render clocks and one of
\* epoch-millisecond magnitude
RenderTimes == {0, 10, 200, RenderEpochThreshold}

\* The value of the "episode" key of a header object
HeaderEpisodeFields ==
    { [type |-> "int", v |-> 3],        \* {"episode": 3}
      [type |-> "numstr", v |-> 3],     \* {"episode": "3"}
      [type |-> "null", v |-> 0],       \* {"episode": null}
      [type |-> "absent", v |-> 0] }    \* {}

\* Header payloads: a JSON object, other JSON (array, number, string), or
\* bytes that json.loads / decode("utf-8") rejects
HeaderPayloads ==
    { [json |-> "object", episode |-> e] : e \in HeaderEpisodeFields }
    \cup { [json |-> "other", episode |-> [type |-> "absent", v |-> 0]],
           [json |-> "invalid", episode |-> [type |-> "absent", v |-> 0]] }

\* Position payloads that are JSON objects: renderTime present or not, the
\* five coordinates x,y,z,yaw,pitch all present and numeric or not
PosPayloads ==
    { [renderTime |-> rt, coords |-> c] :
        rt \in {<<>>} \cup {<<t>> : t \in RenderTimes}, c \in BOOLEAN }

\* Interval of the records of a client that renders at a steady rate (ms)
SteadyIntervalMs == 50

\* What a client sends. "any": up to MaxRecords records per connection with
\* any of PosPayloads. "steady": up to MaxRecords + 1 records whose
\* renderTime advances by SteadyIntervalMs from record to record.
\* "stalling": up to MaxRecords such records from a client that may stop
\* sending without closing, after which it is "stalled".
ClientMaxRecords(c) == IF c = "steady" THEN MaxRecords + 1 ELSE MaxRecords

ClientPosPayloads(c, n) ==
    IF c \in {"steady", "stalling"}
    THEN { [renderTime |-> <<n * SteadyIntervalMs>>, coords |-> k] :
             k \in BOOLEAN }
    ELSE PosPayloads

\* Outcomes of recvint(conn): a zero length, a non-zero length, or recvall
\* returning None (peer closed or socket.error) so that int.from_bytes raises
LengthOutcomes == {"zero", "len", "eof"}

\* Variant: any decodable header is accepted
HeaderParsesAnyJson(h) == h.json # "invalid"

\* lines 245-251: json.loads(...) and int(header.get("episode", 0)) succeed
HeaderParses(h) ==
    /\ h.json = "object"
    /\ h.episode.type \in {"int", "numstr", "absent"}

\* int(header.get("episode", 0))
HeaderEpisode(h) == IF h.episode.type = "absent" THEN 0 ELSE h.episode.v

\* Variant: a bounded queue that drops the item when one is already waiting
QueuePutDropping(q, item) == IF Len(q) >= 1 THEN q ELSE Append(q, item)

\* frame_queue.put(item) on the unbounded Queue() of line 255
QueuePut(q, item) == Append(q, item)

\* The sentinel None of line 326
Sentinel == [sentinel |-> TRUE]

\* The server listens (line 217), nothing accepted yet
ServerStart ==
    /\ MatchIdle
    /\ EncodeIdle
    /\ CodecIdle
    /\ AlignIdle
    /\ r_pc = "accept"
    /\ conns = 0
    /\ viewer_rendering_disabled \in BOOLEAN
    /\ conn_state = "none"
    /\ header_data = <<>>
    /\ episode_id = 0
    /\ img_count = 0
    /\ retcode = 0
    /\ pos = <<>>
    /\ w_pc = "none"
    /\ frame_queue = <<>>
    /\ action_data = <<>>
    /\ frames = <<>>
    /\ first_render_time = <<>>
    /\ episode_start_epoch = <<>>
    /\ render_time_is_epoch = FALSE
    /\ video_fps = <<>>
    /\ out_video = <<>>
    /\ out_trace = <<>>
    /\ out_meta = <<>>
    /\ wire_end = "none"
    /\ recv_log = <<>>
    /\ deq_log = <<>>

InitServer == ServerStart /\ client = "any"

InitStream == ServerStart /\ client = "steady"

InitStall == ServerStart /\ client = "stalling"

\* line 221: conn, addr = s.accept(). The previous connection's worker has
\* terminated (join) and its files belong to another output_path; the model
\* follows the files and history of the current connection only.
Accept ==
    /\ r_pc = "accept"
    /\ conns < MaxConns
    /\ conns' = conns + 1
    /\ r_pc' = "hdr_len"
    /\ conn_state' = "open"
    /\ header_data' = <<>>
    /\ episode_id' = 0
    /\ img_count' = 0
    /\ retcode' = 0
    /\ pos' = <<>>
    /\ w_pc' = "none"
    /\ frame_queue' = <<>>
    /\ action_data' = <<>>
    /\ frames' = <<>>
    /\ first_render_time' = <<>>
    /\ episode_start_epoch' = <<>>
    /\ render_time_is_epoch' = FALSE
    /\ video_fps' = <<>>
    /\ out_video' = <<>>
    /\ out_trace' = <<>>
    /\ out_meta' = <<>>
    /\ wire_end' = "none"
    /\ recv_log' = <<>>
    /\ deq_log' = <<>>
    /\ UNCHANGED <<viewer_rendering_disabled, client,
                   mvars, evars, cvars, avars>>

\* lines 232-239: header_len = recvint(conn), 0 on any exception;
\* header_len == 0 closes the connection and continues the accept loop
ReadHeaderLen ==
    /\ r_pc = "hdr_len"
    /\ client # "stalled"
    /\ \E out \in LengthOutcomes :
          /\ wire_end' = IF out = "len" THEN "none" ELSE out
          /\ IF out = "len"
             THEN r_pc' = "hdr_body" /\ UNCHANGED conn_state
             ELSE r_pc' = "accept" /\ conn_state' = "closed"
    /\ UNCHANGED <<conns, viewer_rendering_disabled, client,
                   header_data, episode_id,
                   img_count, retcode, pos, wvars, recv_log, deq_log,
                   mvars, evars, cvars, avars>>

\* lines 240-244: header_data = recvall(conn, header_len); None closes
ReadHeaderBody ==
    /\ r_pc = "hdr_body"
    /\ client # "stalled"
    /\ \/ /\ wire_end' = "short"
          /\ r_pc' = "accept"
          /\ conn_state' = "closed"
          /\ UNCHANGED header_data
       \/ \E h \in HeaderPayloads :
             /\ header_data' = <<h>>
             /\ r_pc' = "hdr_parse"
             /\ UNCHANGED <<wire_end, conn_state>>
    /\ UNCHANGED <<conns, viewer_rendering_disabled, client,
                   episode_id, img_count,
                   retcode, pos, wvars, recv_log, deq_log,
                   mvars, evars, cvars, avars>>

\* lines 245-269: parse the header; on failure close and continue, otherwise
\* create the queue, start the worker thread and enter the streaming loop
ParseHeader ==
    /\ r_pc = "hdr_parse"
    /\ IF HeaderParses(header_data[1])
       THEN /\ episode_id' = HeaderEpisode(header_data[1])
            /\ frame_queue' = <<>>
            /\ w_pc' = "loop"
            /\ img_count' = 0
            /\ retcode' = 0
            /\ r_pc' = "pos_len"
            /\ UNCHANGED <<conn_state, wire_end>>
       ELSE /\ wire_end' = "malformed"
            /\ r_pc' = "accept"
            /\ conn_state' = "closed"
            /\ UNCHANGED <<episode_id, frame_queue, w_pc, img_count, retcode>>
    /\ UNCHANGED <<conns, viewer_rendering_disabled, client, header_data, pos,
                   action_data, frames, first_render_time, episode_start_epoch,
                   render_time_is_epoch, video_fps, out_video, out_trace,
                   out_meta, recv_log, deq_log, mvars, evars, cvars, avars>>

\* lines 273-280: pos_length = recvint(conn), 0 on any exception;
\* pos_length == 0 is the "normal end" (retcode 0, break)
ReadPosLen ==
    /\ r_pc = "pos_len"
    /\ client # "stalled"
    /\ \E out \in LengthOutcomes :
          /\ IF out = "len"
             THEN r_pc' = "pos_body" /\ UNCHANGED <<retcode, wire_end>>
             ELSE r_pc' = "finally" /\ retcode' = 0 /\ wire_end' = out
    /\ UNCHANGED <<conns, viewer_rendering_disabled, client,
                   conn_state, header_data,
                   episode_id, img_count, pos, wvars, recv_log, deq_log,
                   mvars, evars, cvars, avars>>

\* lines 309-311: img_count += 1; frame_queue.put((img, pos))
Enqueue(img, p) ==
    /\ img_count' = img_count + 1
    /\ frame_queue' = QueuePut(frame_queue, [img |-> img, pos |-> p])
    /\ recv_log' = Append(recv_log, [img |-> img, pos |-> p])

\* lines 282-292: pos_data = recvall(conn, pos_length); None is an abnormal
\* end; json.loads or the assignment pos["frame_count"] raising (payload not
\* JSON, or JSON that is not an object) goes to the outer except (retcode 1);
\* with rendering disabled the pair (None, pos) is enqueued at once.
\* A client sends at most ClientMaxRecords(client) complete position records.
ReadPosBody ==
    /\ r_pc = "pos_body"
    /\ client # "stalled"
    /\ \/ /\ \E w \in {"short", "malformed"} : wire_end' = w
          /\ retcode' = 1
          /\ r_pc' = "finally"
          /\ UNCHANGED <<pos, img_count, frame_queue, recv_log>>
       \/ \E payload \in ClientPosPayloads(client, img_count) :
             /\ img_count < ClientMaxRecords(client)
             /\ LET p == [renderTime |-> payload.renderTime,
                       coords |-> payload.coords,
                       frame_count |-> img_count,
                       episode_id |-> episode_id]
                IN IF viewer_rendering_disabled
                   THEN /\ Enqueue(<<>>, p)
                        /\ pos' = <<>>
                        /\ r_pc' = "pos_len"
                        /\ UNCHANGED <<retcode, wire_end>>
                   ELSE /\ pos' = <<p>>
                        /\ r_pc' = "img_len"
                        /\ UNCHANGED <<retcode, wire_end, img_count,
                                       frame_queue, recv_log>>
    /\ UNCHANGED <<conns, viewer_rendering_disabled, client,
                   conn_state, header_data,
                   episode_id, w_pc, action_data, frames, first_render_time,
                   episode_start_epoch, render_time_is_epoch, video_fps,
                   out_video, out_trace, out_meta, deq_log,
                   mvars, evars, cvars, avars>>

\* Variant: a zero-length image frame is taken as the end of the episode and
\* the position record already read is enqueued without an image
ReadImgLenZeroIsTerminator ==
    /\ r_pc = "img_len"
    /\ client # "stalled"
    /\ \E out \in LengthOutcomes :
          IF out = "len"
          THEN /\ r_pc' = "img_body"
               /\ UNCHANGED <<retcode, wire_end, pos, frame_queue, recv_log>>
          ELSE /\ r_pc' = "finally"
               /\ retcode' = IF out = "zero" THEN 0 ELSE 1
               /\ wire_end' = IF out = "zero" THEN "img_zero" ELSE "img_eof"
               /\ pos' = <<>>
               /\ IF out = "zero"
                  THEN /\ frame_queue' = QueuePut(frame_queue,
                                            [img |-> <<>>, pos |-> pos[1]])
                       /\ recv_log' = Append(recv_log,
                                            [img |-> <<>>, pos |-> pos[1]])
                  ELSE UNCHANGED <<frame_queue, recv_log>>
    /\ UNCHANGED <<conns, viewer_rendering_disabled, client, conn_state,
                   header_data, episode_id, img_count, w_pc, action_data,
                   frames, first_render_time, episode_start_epoch,
                   render_time_is_epoch, video_fps, out_video, out_trace,
                   out_meta, deq_log, mvars, evars, cvars, avars>>

\* lines 294-298: length = recvint(conn) outside any inner try: a zero length
\* is an error (retcode 1, break), a failed read raises TypeError into the
\* outer except (retcode 1)
ReadImgLen ==
    /\ r_pc = "img_len"
    /\ client # "stalled"
    /\ \E out \in LengthOutcomes :
          IF out = "len"
          THEN r_pc' = "img_body" /\ UNCHANGED <<retcode, wire_end, pos>>
          ELSE /\ r_pc' = "finally"
               /\ retcode' = 1
               /\ wire_end' = IF out = "zero" THEN "img_zero" ELSE "img_eof"
               /\ pos' = <<>>
    /\ UNCHANGED <<conns, viewer_rendering_disabled, client,
                   conn_state, header_data,
                   episode_id, img_count, wvars, recv_log, deq_log,
                   mvars, evars, cvars, avars>>

\* lines 300-311: stringData = recvall(conn, length); None is an error;
\* otherwise img = cv2.imdecode(...) (None when the bytes do not decode) and
\* the pair is enqueued. A decoded image is identified by its frame_count.
ReadImgBody ==
    /\ r_pc = "img_body"
    /\ client # "stalled"
    /\ \/ /\ wire_end' = "img_short"
          /\ retcode' = 1
          /\ r_pc' = "finally"
          /\ UNCHANGED <<img_count, frame_queue, recv_log>>
       \/ \E decodes \in BOOLEAN :
             /\ Enqueue(IF decodes THEN <<img_count>> ELSE <<>>, pos[1])
             /\ r_pc' = "pos_len"
             /\ UNCHANGED <<retcode, wire_end>>
    /\ pos' = <<>>
    /\ UNCHANGED <<conns, viewer_rendering_disabled, client,
                   conn_state, header_data,
                   episode_id, w_pc, action_data, frames, first_render_time,
                   episode_start_epoch, render_time_is_epoch, video_fps,
                   out_video, out_trace, out_meta, deq_log,
                   mvars, evars, cvars, avars>>

\* lines 325-326: finally: frame_queue.put(None)
PutSentinel ==
    /\ r_pc = "finally"
    /\ frame_queue' = QueuePut(frame_queue, Sentinel)
    /\ r_pc' = "join"
    /\ UNCHANGED <<conns, viewer_rendering_disabled, client,
                   conn_state, header_data,
                   episode_id, img_count, retcode, pos, w_pc, action_data,
                   frames, first_render_time, episode_start_epoch,
                   render_time_is_epoch, video_fps, out_video, out_trace,
                   out_meta, hvars, mvars, evars, cvars, avars>>

\* Variant: join() returns only for a worker that completed its finalization
JoinOnlyFinished ==
    /\ r_pc = "join"
    /\ w_pc = "done"
    /\ r_pc' = "close"
    /\ UNCHANGED <<conns, viewer_rendering_disabled, client, conn_state,
                   header_data, episode_id, img_count, retcode, pos, wvars,
                   hvars, mvars, evars, cvars, avars>>

\* Variant: the main thread goes on without waiting for the worker
JoinNoWait ==
    /\ r_pc = "join"
    /\ r_pc' = "close"
    /\ UNCHANGED <<conns, viewer_rendering_disabled, client, conn_state,
                   header_data, episode_id, img_count, retcode, pos, wvars,
                   hvars, mvars, evars, cvars, avars>>

\* line 327: processor.join() returns once the worker thread has ended,
\* normally or by an uncaught exception
Join ==
    /\ r_pc = "join"
    /\ w_pc \in {"done", "crashed"}
    /\ r_pc' = "close"
    /\ UNCHANGED <<conns, viewer_rendering_disabled, client,
                   conn_state, header_data,
                   episode_id, img_count, retcode, pos, wvars, hvars,
                   mvars, evars, cvars, avars>>

\* line 328: conn.close(), then back to accept()
CloseConn ==
    /\ r_pc = "close"
    /\ conn_state' = "closed"
    /\ r_pc' = "accept"
    /\ UNCHANGED <<conns, viewer_rendering_disabled, client,
                   header_data, episode_id,
                   img_count, retcode, pos, wvars, hvars,
                   mvars, evars, cvars, avars>>

\* ------------------------------------------------------------------------
\* process_frame_worker  (act_recorder.py:21-149)
\* ------------------------------------------------------------------------
\* float(pos.get("renderTime", 0.0))
RenderTimeOf(p) == IF p.renderTime = <<>> THEN 0 ELSE p.renderTime[1]

\* Variant: the rate is not capped
VideoFpsUncapped(n, dt) == [num |-> n * 1000, den |-> dt]

\* lines 105-108: real_fps = n / (dt / 1000); video_fps = min(real_fps, 20),
\* kept as the fraction num/den; dt # 0
VideoFps(n, dt) ==
    IF dt > 0 /\ n * 1000 > MaxVideoFps * dt
    THEN [num |-> MaxVideoFps, den |-> 1]
    ELSE [num |-> n * 1000, den |-> dt]

\* Variant: an empty queue (the 5 s get timeout) ends the loop like the sentinel
WorkerBreakOnEmpty ==
    /\ w_pc = "loop"
    /\ \/ frame_queue = <<>> /\ UNCHANGED <<frame_queue, deq_log>>
       \/ /\ frame_queue # <<>>
          /\ Head(frame_queue) = Sentinel
          /\ frame_queue' = Tail(frame_queue)
          /\ deq_log' = Append(deq_log, Sentinel)
    /\ w_pc' = "finalize"
    /\ UNCHANGED <<rvars, action_data, frames, first_render_time,
                   episode_start_epoch, render_time_is_epoch, video_fps,
                   out_video, out_trace, out_meta, wire_end, recv_log,
                   mvars, evars, cvars, avars>>

\* lines 31-33: data = frame_queue.get(timeout=5); None ends the loop. An
\* empty queue raises Empty after 5 s and the loop retries (lines 85-87), so
\* the worker only ever proceeds with an item.
WorkerBreak ==
    /\ w_pc = "loop"
    /\ frame_queue # <<>>
    /\ Head(frame_queue) = Sentinel
    /\ frame_queue' = Tail(frame_queue)
    /\ deq_log' = Append(deq_log, Sentinel)
    /\ w_pc' = "finalize"
    /\ UNCHANGED <<rvars, action_data, frames, first_render_time,
                   episode_start_epoch, render_time_is_epoch, video_fps,
                   out_video, out_trace, out_meta, wire_end, recv_log,
                   mvars, evars, cvars, avars>>

\* Variant: the anchor is taken again from every record
WorkerProcessReanchor ==
    /\ w_pc = "loop"
    /\ frame_queue # <<>>
    /\ Head(frame_queue) # Sentinel
    /\ \E now_epoch \in WallClockMs :
        LET data == Head(frame_queue)
            p == data.pos
            render_time == RenderTimeOf(p)
            first == TRUE
            frt == IF first THEN render_time ELSE first_render_time[1]
            is_epoch == IF first
                        THEN render_time >= RenderEpochThreshold
                        ELSE render_time_is_epoch
            start == IF first
                     THEN IF render_time >= RenderEpochThreshold
                          THEN render_time
                          ELSE now_epoch - render_time
                     ELSE episode_start_epoch[1]
            relative_ms == render_time - frt
            epoch_time == IF is_epoch THEN render_time
                          ELSE start + relative_ms
            rec == [renderTime |-> p.renderTime,
                    frame_count |-> p.frame_count,
                    episode_id |-> episode_id,
                    relativeTimeMs |-> relative_ms,
                    epochTime |-> epoch_time]
        IN /\ first_render_time' = <<frt>>
           /\ render_time_is_epoch' = is_epoch
           /\ episode_start_epoch' = <<start>>
           /\ action_data' = IF p.coords THEN Append(action_data, rec)
                             ELSE action_data
           /\ frames' = IF p.coords /\ ~viewer_rendering_disabled
                           /\ data.img # <<>>
                        THEN Append(frames, data.img[1])
                        ELSE frames
           /\ deq_log' = Append(deq_log, data)
    /\ frame_queue' = Tail(frame_queue)
    /\ UNCHANGED <<rvars, w_pc, video_fps, out_video, out_trace, out_meta,
                   wire_end, recv_log, mvars, evars, cvars, avars>>

\* lines 31-100: take one (img, pos) item and process it. A missing or
\* non-numeric coordinate raises at lines 59-63, after the time anchoring
\* and before the append; the except of line 88 logs and continues.
WorkerProcess ==
    /\ w_pc = "loop"
    /\ frame_queue # <<>>
    /\ Head(frame_queue) # Sentinel
    /\ \E now_epoch \in WallClockMs :
        LET data == Head(frame_queue)
            p == data.pos
            render_time == RenderTimeOf(p)
            first == first_render_time = <<>>
            frt == IF first THEN render_time ELSE first_render_time[1]
            is_epoch == IF first
                        THEN render_time >= RenderEpochThreshold
                        ELSE render_time_is_epoch
            start == IF first
                     THEN IF render_time >= RenderEpochThreshold
                          THEN render_time
                          ELSE now_epoch - render_time
                     ELSE episode_start_epoch[1]
            relative_ms == render_time - frt
            epoch_time == IF is_epoch THEN render_time
                          ELSE start + relative_ms
            rec == [renderTime |-> p.renderTime,
                    frame_count |-> p.frame_count,
                    episode_id |-> episode_id,
                    relativeTimeMs |-> relative_ms,
                    epochTime |-> epoch_time]
        IN /\ first_render_time' = <<frt>>
           /\ render_time_is_epoch' = is_epoch
           /\ episode_start_epoch' = <<start>>
           /\ action_data' = IF p.coords THEN Append(action_data, rec)
                             ELSE action_data
           /\ frames' = IF p.coords /\ ~viewer_rendering_disabled
                           /\ data.img # <<>>
                        THEN Append(frames, data.img[1])
                        ELSE frames
           /\ deq_log' = Append(deq_log, data)
    /\ frame_queue' = Tail(frame_queue)
    /\ UNCHANGED <<rvars, w_pc, video_fps, out_video, out_trace, out_meta,
                   wire_end, recv_log, mvars, evars, cvars, avars>>

\* action_data[-1]["renderTime"] - action_data[0]["renderTime"] raises
\* KeyError when either record has no renderTime, and the division raises
\* ZeroDivisionError when the two are equal: the thread dies
FpsRaises ==
    /\ Len(action_data) > 1
    /\ \/ action_data[1].renderTime = <<>>
       \/ action_data[Len(action_data)].renderTime = <<>>
       \/ action_data[Len(action_data)].renderTime = action_data[1].renderTime

\* lines 102-114: compute real_fps and video_fps
WorkerComputeFps ==
    /\ w_pc = "finalize"
    /\ IF FpsRaises
       THEN w_pc' = "crashed" /\ UNCHANGED video_fps
       ELSE /\ video_fps' =
                 IF Len(action_data) > 1
                 THEN <<VideoFps(Len(action_data),
                           action_data[Len(action_data)].renderTime[1]
                             - action_data[1].renderTime[1])>>
                 ELSE <<[num |-> MaxVideoFps, den |-> 1]>>
            /\ w_pc' = IF viewer_rendering_disabled THEN "trace" ELSE "video"
    /\ UNCHANGED <<rvars, frame_queue, action_data, frames, first_render_time,
                   episode_start_epoch, render_time_is_epoch, out_video,
                   out_trace, out_meta, hvars, mvars, evars, cvars, avars>>

\* lines 117-130: write all buffered frames at video_fps
WorkerWriteVideo ==
    /\ w_pc = "video"
    /\ out_video' = <<[fps |-> video_fps[1], frames |-> frames]>>
    /\ w_pc' = "trace"
    /\ UNCHANGED <<rvars, frame_queue, action_data, frames, first_render_time,
                   episode_start_epoch, render_time_is_epoch, video_fps,
                   out_trace, out_meta, hvars, mvars, evars, cvars, avars>>

\* lines 131-133: json.dump(action_data)
WorkerWriteTrace ==
    /\ w_pc = "trace"
    /\ out_trace' = <<action_data>>
    /\ w_pc' = "meta"
    /\ UNCHANGED <<rvars, frame_queue, action_data, frames, first_render_time,
                   episode_start_epoch, render_time_is_epoch, video_fps,
                   out_video, out_meta, hvars, mvars, evars, cvars, avars>>

\* lines 135-149: default the anchors of an empty episode, write the metadata
WorkerWriteMeta ==
    /\ w_pc = "meta"
    /\ \E now_epoch \in WallClockMs :
        LET none == episode_start_epoch = <<>>
            start == IF none THEN now_epoch ELSE episode_start_epoch[1]
            frt == IF none THEN 0 ELSE first_render_time[1]
            is_epoch == IF none THEN FALSE ELSE render_time_is_epoch
        IN /\ episode_start_epoch' = <<start>>
           /\ first_render_time' = <<frt>>
           /\ render_time_is_epoch' = is_epoch
           /\ out_meta' = <<[episode_start_epoch |-> start,
                             first_render_time_ms |-> frt,
                             render_time_is_epoch |-> is_epoch,
                             frames |-> Len(action_data),
                             video_fps |-> video_fps[1],
                             episode_id |-> episode_id]>>
    /\ w_pc' = "done"
    /\ UNCHANGED <<rvars, frame_queue, action_data, frames, video_fps,
                   out_video, out_trace, hvars, mvars, evars, cvars, avars>>

Reader ==
    \/ Accept
    \/ ReadHeaderLen
    \/ ReadHeaderBody
    \/ ParseHeader
    \/ ReadPosLen
    \/ ReadPosBody
    \/ ReadImgLen
    \/ ReadImgBody
    \/ PutSentinel
    \/ Join
    \/ CloseConn

Worker ==
    \/ WorkerProcess
    \/ WorkerBreak
    \/ WorkerComputeFps
    \/ WorkerWriteVideo
    \/ WorkerWriteTrace
    \/ WorkerWriteMeta

Next == Reader \/ Worker

Spec == InitServer /\ [][Next]_vars

\* The states in which the main thread is inside a socket read (recvall)
ReadStates ==
    {"hdr_len", "hdr_body", "pos_len", "pos_body", "img_len", "img_body"}

\* The connected client stops sending and keeps the connection open: from
\* now on sock.recv (line 155) has nothing to return. Line 229,
\* conn.settimeout(10), is commented out, so no read of the stalled
\* connection raises socket.timeout.
ClientStall ==
    /\ client = "stalling"
    /\ r_pc \in ReadStates
    /\ client' = "stalled"
    /\ UNCHANGED <<r_pc, conns, viewer_rendering_disabled, conn_state,
                   header_data, episode_id, img_count, retcode, pos, wvars,
                   hvars, mvars, evars, cvars, avars>>

NextStall == Reader \/ Worker \/ ClientStall

\* The capture server with clients that may stall
SpecStall == InitStall /\ [][NextStall]_vars

\* The capture server with clients that send steadily timed records
SpecStream == InitStream /\ [][Next]_vars

\* The worker thread is scheduled whenever it can run, and the client keeps
\* sending or closes, so every read of the main thread returns
FairSpec == Spec /\ WF_vars(Worker) /\ WF_vars(Reader)

\* ========================================================================
\* Properties of the stream matcher (checked under SpecMatch)
\* ========================================================================
Matched == m_pc = "matched"

\* 0-based index of the first frame at or after time t (n_frames if none)
FirstFrameAtOrAfter(ft, t) ==
    IF \E j \in 1..Len(ft) : ft[j] >= t
    THEN (CHOOSE j \in 1..Len(ft) :
              /\ ft[j] >= t
              /\ \A k \in 1..(j - 1) : ft[k] < t) - 1
    ELSE Len(ft)

\* C1: for ascending action_times and frame_timestamps the returned
\* frame_indices is non-decreasing: a later action never gets an earlier frame.
C1_MatcherMonotone ==
    (Matched /\ IsAscending(action_times) /\ IsAscending(frame_timestamps))
        => \A i \in 1..Len(frame_indices) : \A k \in 1..i :
               frame_indices[k] <= frame_indices[i]

C1_Witness ==
    /\ Matched
    /\ frame_indices = <<0, 0, 1, 2>>
    /\ action_times[2] > action_times[1]

\* C2: every matched action i gets the lowest frame index j with
\* frame_times[j] >= action_times[i] (equality matches); the pointer is not
\* advanced after a match, so the next action may receive the same frame.
C2_LowestFrameAtOrAfter ==
    Matched =>
        \A i \in 1..Len(frame_indices) :
            /\ frame_indices[i] \in 0..(Len(frame_timestamps) - 1)
            /\ frame_timestamps[frame_indices[i] + 1] >= action_times[i]
            /\ \A j \in 0..(frame_indices[i] - 1) :
                   frame_timestamps[j + 1] < action_times[i]

C2_Witness ==
    /\ Matched
    /\ \E i \in 1..(Len(frame_indices) - 1) :
          /\ frame_indices[i] = frame_indices[i + 1]
          /\ frame_indices[i] > 0
          /\ frame_timestamps[frame_indices[i] + 1] = action_times[i + 1]
          /\ action_times[i] < action_times[i + 1]

\* C3: two consecutive actions with the same first frame at-or-after them
\* reuse that frame index; duplicate_frame_count is the number of distinct
\* frame indices occurring more than once; frame_times=[0,1,3] with
\* action_times=[0,1,2,3] gives frame_indices=[0,1,2,2] and count 1.
C3_DuplicateSemantics ==
    Matched =>
        /\ \A i \in 1..(Len(frame_indices) - 1) :
              FirstFrameAtOrAfter(frame_timestamps, action_times[i])
                = FirstFrameAtOrAfter(frame_timestamps, action_times[i + 1])
              => frame_indices[i + 1] = frame_indices[i]
        /\ diagnostics.duplicate_frame_count =
              Cardinality({j \in 0..(Len(frame_timestamps) - 1) :
                  \E k1, k2 \in 1..Len(frame_indices) :
                      /\ k1 # k2
                      /\ frame_indices[k1] = j
                      /\ frame_indices[k2] = j})
        /\ (frame_timestamps = <<0, 2, 6>> /\ action_times = <<0, 2, 4, 6>>)
              => /\ frame_indices = <<0, 1, 2, 2>>
                 /\ diagnostics.duplicate_frame_count = 1

C3_Witness ==
    /\ Matched
    /\ frame_timestamps = <<0, 2, 6>>
    /\ action_times = <<0, 2, 4, 6>>
    /\ frame_indices = <<0, 1, 2, 2>>

\* C4: matching stops at the first action later than every frame; nothing is
\* emitted for it or any later action, unmatched_actions_end counts them, so
\* len(frame_indices) + unmatched_actions_end == n_actions and the matched
\* actions are a prefix; frame_times=[0,1], action_times=[0,0.5,5] gives two
\* indices and unmatched_actions_end == 1.
C4_UnmatchedAtEnd ==
    Matched =>
        /\ Len(frame_indices) + diagnostics.unmatched_actions_end
              = Len(action_times)
        /\ diagnostics.unmatched_actions_end >= 0
        /\ \A i \in 1..Len(frame_indices) :
              \E j \in 1..Len(frame_timestamps) :
                  frame_timestamps[j] >= action_times[i]
        /\ diagnostics.unmatched_actions_end > 0
              => \A j \in 1..Len(frame_timestamps) :
                     frame_timestamps[j] < action_times[Len(frame_indices) + 1]
        /\ (frame_timestamps = <<0, 2>> /\ action_times = <<0, 1, 10>>)
              => /\ Len(frame_indices) = 2
                 /\ diagnostics.unmatched_actions_end = 1

C4_Witness ==
    /\ Matched
    /\ frame_timestamps = <<0, 2>>
    /\ action_times = <<0, 1, 10>>
    /\ diagnostics.unmatched_actions_end = 1

\* C5: unmatched_actions_start is the number of leading actions strictly
\* before the first frame time; frame_times=[5,6,7], action_times=[1,2,5,6]
\* gives 2, and the last two actions are matched to frame indices 0 and 1.
C5_UnmatchedAtStart ==
    Matched =>
        /\ Len(frame_timestamps) > 0 =>
              diagnostics.unmatched_actions_start =
                  Cardinality({i \in 1..Len(action_times) :
                      \A k \in 1..i : action_times[k] < frame_timestamps[1]})
        /\ (frame_timestamps = <<10, 12, 14>>
              /\ action_times = <<2, 4, 10, 12>>)
              => /\ diagnostics.unmatched_actions_start = 2
                 /\ Len(frame_indices) = 4
                 /\ frame_indices[3] = 0
                 /\ frame_indices[4] = 1

C5_Witness ==
    /\ Matched
    /\ frame_timestamps = <<10, 12, 14>>
    /\ action_times = <<2, 4, 10, 12>>
    /\ diagnostics.unmatched_actions_start = 2

\* ========================================================================
\* Properties of the frame re-encoder (checked under SpecEncode)
\* ========================================================================

\* C6: when _write_frames_by_index completes without error for a non-empty
\* list of in-range indices, the number of frames written equals
\* len(frame_indices), one write per requested position in request order.
C6_FrameCountInvariant ==
    /\ e_pc = "done" =>
          /\ Len(e_frame_indices) > 0
          /\ Len(written) = Len(e_frame_indices)
          /\ \A k \in 1..Len(written) : written[k].pos = k - 1
    /\ e_pc = "loop" => Len(written) = e_i

C6_Witness ==
    /\ e_pc = "done"
    /\ Len(written) = MaxRequests
    /\ IsAscending(e_frame_indices)
    /\ cache_hits > 0
    /\ reads_count - seeks_count > 0

\* ========================================================================
\* Properties of the capture server (checked under Spec)
\* ========================================================================
WorkerEnded == w_pc \in {"done", "crashed"}

\* The finally block has enqueued the sentinel for the current connection
SentinelSent ==
    \/ r_pc \in {"join", "close"}
    \/ r_pc = "accept" /\ w_pc # "none"

\* The client sent n >= 1 well-formed position records with strictly
\* increasing renderTime (each with its image frame when video capture is
\* enabled) and then a zero-length position frame
WellFormedEpisode ==
    /\ wire_end = "zero"
    /\ w_pc # "none"
    /\ Len(recv_log) >= 1
    /\ \A k \in 1..Len(recv_log) :
          /\ recv_log[k].pos.coords
          /\ recv_log[k].pos.renderTime # <<>>
    /\ \A k \in 1..(Len(recv_log) - 1) :
          recv_log[k].pos.renderTime[1] < recv_log[k + 1].pos.renderTime[1]

\* C7: header, n >= 1 well-formed position records with increasing
\* renderTime, then a zero-length position frame: the trace file holds
\* exactly the n records in receive order and the metadata has frames == n.
C7_CaptureFraming ==
    (WorkerEnded /\ WellFormedEpisode) =>
        /\ w_pc = "done"
        /\ out_trace # <<>>
        /\ Len(out_trace[1]) = Len(recv_log)
        /\ \A k \in 1..Len(recv_log) :
              /\ out_trace[1][k].renderTime = recv_log[k].pos.renderTime
              /\ out_trace[1][k].frame_count = k - 1
        /\ out_meta # <<>>
        /\ out_meta[1].frames = Len(recv_log)

C7_Witness ==
    /\ w_pc = "done"
    /\ WellFormedEpisode
    /\ ~viewer_rendering_disabled
    /\ Len(recv_log) = 2
    /\ out_meta[1].frames = 2

\* C8: every episode whose header was accepted is finalized: however the
\* connection ends (terminator, disconnect, read error, malformed record) and
\* whatever ActionRecords were buffered (none, one, or several with equal
\* renderTime), the worker writes the trace file and the metadata file with
\* the buffered records. Stated on the worker's final state, for position
\* records that carry renderTime and all coordinates.
C8_EveryEpisodeFinalized ==
    (WorkerEnded /\ \A k \in 1..Len(recv_log) :
                        /\ recv_log[k].pos.coords
                        /\ recv_log[k].pos.renderTime # <<>>)
        => /\ out_trace = <<action_data>>
           /\ out_meta # <<>>
           /\ out_meta[1].frames = Len(action_data)

\* C9: the sentinel is enqueued on the same FIFO queue after all received
\* pairs, and the worker takes every pair enqueued before it, in enqueue
\* order, before it writes any output file; no pair is lost or reordered.
C9_SentinelDrainsQueue ==
    w_pc # "none" =>
        /\ deq_log \o frame_queue
              = recv_log \o (IF SentinelSent THEN <<Sentinel>> ELSE <<>>)
        /\ (w_pc # "loop" \/ out_video # <<>> \/ out_trace # <<>>
              \/ out_meta # <<>>)
              => /\ frame_queue = <<>>
                 /\ deq_log = recv_log \o <<Sentinel>>
        /\ Len(action_data)
              = Cardinality({k \in 1..Len(deq_log) :
                    deq_log[k] # Sentinel /\ deq_log[k].pos.coords})
        /\ \A k \in 1..(Len(action_data) - 1) :
              action_data[k].frame_count < action_data[k + 1].frame_count

C9_Witness ==
    /\ w_pc = "done"
    /\ retcode = 1
    /\ Len(recv_log) = 2
    /\ out_trace = <<action_data>>
    /\ Len(action_data) = 2

\* C10 as claimed: an episode (worker, queue, files) is created only when
\* the header is a JSON object with an integer `episode` field.
C10_OnlyIntegerEpisodeHeader ==
    w_pc # "none" =>
        /\ header_data # <<>>
        /\ header_data[1].json = "object"
        /\ header_data[1].episode.type = "int"

\* C10 amended: an episode is created only when the header payload arrived
\* completely and parses as a JSON object whose `episode` value is absent
\* (the id defaults to 0) or is accepted by int(); otherwise the connection
\* is closed with no worker started and no file written.
C10_EpisodeOnlyOnParsedHeader ==
    /\ w_pc # "none" =>
          /\ header_data # <<>>
          /\ header_data[1].json = "object"
          /\ header_data[1].episode.type # "null"
          /\ episode_id = (IF header_data[1].episode.type = "absent"
                           THEN 0 ELSE header_data[1].episode.v)
    /\ w_pc = "none" =>
          /\ frame_queue = <<>>
          /\ action_data = <<>>
          /\ out_video = <<>> /\ out_trace = <<>> /\ out_meta = <<>>
    /\ (r_pc = "accept" /\ conns > 0) => conn_state = "closed"
    /\ w_pc = "none" => r_pc \in {"accept", "hdr_len", "hdr_body", "hdr_parse"}

C10_Witness ==
    /\ r_pc = "accept"
    /\ conn_state = "closed"
    /\ w_pc = "none"
    /\ header_data # <<>>
    /\ header_data[1].json = "object"
    /\ header_data[1].episode.type = "null"

\* The streaming loop of the current connection has ended (break or except)
StreamEnded == w_pc # "none" /\ r_pc \in {"finally", "join", "close"}

\* C11: the episode is classified as ended normally (retcode 0) only when a
\* position length prefix of exactly 0 was received; every other read failure
\* on the position frame (the connection closed or failed before the 4 length
\* bytes arrived, or closed inside the payload) is classified abnormal.
C11_NormalEndOnlyOnTerminator ==
    StreamEnded =>
       /\ retcode = 0 => wire_end = "zero"
       /\ wire_end \in {"eof", "short"} => retcode = 1

\* frame_count values of the position records that reached the queue, the
\* worker's buffer or the trace file
SeenFrameCounts ==
    {frame_queue[k].pos.frame_count :
        k \in {j \in 1..Len(frame_queue) : frame_queue[j] # Sentinel}}
    \cup {deq_log[k].pos.frame_count :
        k \in {j \in 1..Len(deq_log) : deq_log[j] # Sentinel}}
    \cup {action_data[k].frame_count : k \in 1..Len(action_data)}
    \cup (IF out_trace = <<>> THEN {}
          ELSE {out_trace[1][k].frame_count : k \in 1..Len(out_trace[1])})

\* The image frame of the current position record never arrived
ImageMissing == wire_end \in {"img_zero", "img_eof", "img_short"}

\* C12: with video capture enabled, a zero-length image frame, or a
\* connection that closes while the image is read, ends the connection
\* abnormally (retcode 1); a position record is enqueued only once its image
\* frame was received completely, so the record whose image is missing (it
\* would carry frame_count = img_count) is in no queue, buffer or trace.
C12_ImagePairing ==
    (~viewer_rendering_disabled /\ w_pc # "none") =>
        /\ (StreamEnded /\ ImageMissing) => retcode = 1 /\ pos = <<>>
        /\ r_pc \in {"img_len", "img_body"} =>
              pos # <<>> /\ pos[1].frame_count = img_count
        /\ Len(recv_log) = img_count
        /\ \A fc \in SeenFrameCounts : fc < img_count

C12_Witness ==
    /\ ~viewer_rendering_disabled
    /\ wire_end = "img_zero"
    /\ w_pc = "done"
    /\ retcode = 1
    /\ Len(recv_log) = 1
    /\ out_trace # <<>>
    /\ Len(out_trace[1]) = 1

\* C13: whatever ends a connection (bad header, terminator, disconnect, read
\* error, malformed record, a worker that raised), the main thread comes back
\* to accept(): from every point of the handling of a connection the server
\* eventually waits in accept() again, with that connection closed.
C13_ServerReturnsToAccept ==
    (r_pc # "accept") ~> (r_pc = "accept" /\ conn_state = "closed")

\* The second connection ended with a read error and a worker that raised,
\* and the main thread is back in accept()
C13_Witness ==
    /\ conns = 2
    /\ r_pc = "accept"
    /\ conn_state = "closed"
    /\ retcode = 1
    /\ w_pc = "crashed"

\* C14: with video capture enabled, the finalized video file holds exactly
\* one frame per ActionRecord of the trace, and frame i is the image that was
\* received together with ActionRecord[i] (an image is identified by the
\* frame_count of the record it arrived with).
C14_VideoActionOneToOne ==
    (~viewer_rendering_disabled /\ out_video # <<>> /\ out_trace # <<>>) =>
        /\ Len(out_video[1].frames) = Len(out_trace[1])
        /\ \A k \in 1..Len(out_video[1].frames) :
              k <= Len(out_trace[1])
                 => out_video[1].frames[k] = out_trace[1][k].frame_count

\* C15: in every written trace file the frame_count values of consecutive
\* ActionRecords increase by exactly 1 (no gap, no repeat), whatever sequence
\* of records was received. Checked under SpecStream.
C15_TraceFrameCountConsecutive ==
    out_trace # <<>> =>
        \A k \in 1..(Len(out_trace[1]) - 1) :
            out_trace[1][k + 1].frame_count = out_trace[1][k].frame_count + 1

\* A rate num/den equals the cap of 20 fps
IsMaxFps(f) == f.num = MaxVideoFps * f.den

\* A rate num/den does not exceed 20 fps
AtMostMaxFps(f) ==
    IF f.den > 0 THEN f.num <= MaxVideoFps * f.den
                 ELSE f.num >= MaxVideoFps * f.den

\* Span of the buffered records: last renderTime - first renderTime (ms)
RenderSpanMs ==
    action_data[Len(action_data)].renderTime[1] - action_data[1].renderTime[1]

\* C16: the video_fps used for the video and stored in the metadata never
\* exceeds 20. With at least two buffered records it equals
\* min(count / ((last - first) / 1000), 20): it is 20 exactly when the real
\* rate count * 1000 / span reaches 20 and the real rate otherwise (two
\* records 10 ms apart, i.e. 200 fps, give 20); with zero or one record it
\* is 20. Stated wherever the worker has computed a rate.
C16_FpsClamp ==
    video_fps # <<>> =>
        LET f == video_fps[1]
            n == Len(action_data)
        IN /\ AtMostMaxFps(f)
           /\ n <= 1 => f = [num |-> MaxVideoFps, den |-> 1]
           /\ n >= 2 =>
                 /\ (RenderSpanMs > 0 /\ n * 1000 >= MaxVideoFps * RenderSpanMs)
                       <=> IsMaxFps(f)
                 /\ ~IsMaxFps(f) => f.num = n * 1000 /\ f.den = RenderSpanMs
           /\ out_video # <<>> => out_video[1].fps = f
           /\ out_meta # <<>> => out_meta[1].video_fps = f

C16_Witness ==
    /\ w_pc = "done"
    /\ Len(action_data) = 2
    /\ RenderSpanMs = 10
    /\ out_video # <<>>
    /\ out_video[1].fps = [num |-> MaxVideoFps, den |-> 1]
    /\ out_meta[1].video_fps = [num |-> MaxVideoFps, den |-> 1]

\* ========================================================================
\* Wire codec: one frame written by the peer and read with recvint/recvall
\* (act_recorder.py:152-170, used at lines 232-244 and 273-303)
\* ========================================================================
\* Bound of the payload length in bytes
MaxPayload == 3

\* Byte values used in payloads
PayloadBytes == {0, 1, 255}

\* Bytes that may follow the frame on the stream (start of the next frame)
TrailingBytes == {<<>>, <<1>>, <<1, 0>>}

\* len(payload) as 4 bytes, little-endian
LengthPrefix(n) ==
    <<n % 256, (n \div 256) % 256, (n \div 65536) % 256,
      (n \div 16777216) % 256>>

\* write_frame(payload): the length prefix, then the payload
WriteFrame(p) == LengthPrefix(Len(p)) \o p

\* Variant: the length prefix is decoded big-endian
IntFromBytesBig(b) == 16777216 * b[1] + 65536 * b[2] + 256 * b[3] + b[4]

\* line 170: int.from_bytes(buf, byteorder="little") of a 4-byte buffer
IntFromBytesLittle(b) == b[1] + 256 * b[2] + 65536 * b[3] + 16777216 * b[4]

\* line 161: count -= received
RecvRemaining(count, received) == count - received

Prefixes(s) == {SubSeq(s, 1, k) : k \in 0..Len(s)}

InitCodec ==
    /\ MatchIdle
    /\ EncodeIdle
    /\ ServerIdle
    /\ AlignIdle
    /\ c_pc = "send"
    /\ c_payload \in SeqsUpTo(PayloadBytes, MaxPayload)
    /\ c_sent = <<>>
    /\ c_wire = <<>>
    /\ c_recvs = 0
    /\ c_count = 0
    /\ c_buf = <<>>
    /\ c_length = -1
    /\ c_result = <<>>

\* The peer writes the frame, possibly followed by the start of another
\* frame, or closes after any part of it; the reader calls recvint:
\* recvall(sock, 4) starts with buf = b"" (lines 152-154, 169-170)
CodecSend ==
    /\ c_pc = "send"
    /\ \E bytes \in Prefixes(WriteFrame(c_payload))
                     \cup {WriteFrame(c_payload) \o t : t \in TrailingBytes} :
          /\ c_sent' = bytes
          /\ c_wire' = bytes
    /\ c_pc' = "len"
    /\ c_count' = 4
    /\ c_buf' = <<>>
    /\ UNCHANGED <<c_payload, c_recvs, c_length, c_result>>
    /\ UNCHANGED <<mvars, evars, svars, avars>>

\* lines 153-161: one iteration of the while loop in which sock.recv(count)
\* returns between 1 and count of the bytes that have arrived
Recv ==
    /\ c_pc \in {"len", "payload"}
    /\ c_count > 0
    /\ \E received \in 1..c_count :
          /\ received <= Len(c_wire)
          /\ c_buf' = c_buf \o SubSeq(c_wire, 1, received)
          /\ c_wire' = SubSeq(c_wire, received + 1, Len(c_wire))
          /\ c_count' = RecvRemaining(c_count, received)
    /\ c_recvs' = c_recvs + 1
    /\ UNCHANGED <<c_pc, c_payload, c_sent, c_length, c_result>>
    /\ UNCHANGED <<mvars, evars, svars, avars>>

\* lines 155-157, 162-163: sock.recv returns b"" because the peer closed (a
\* socket.error has the same effect): recvall returns None. In recvint the
\* None makes int.from_bytes raise TypeError ("eof"); for the payload the
\* caller sees None ("error").
RecvClosed ==
    /\ c_pc \in {"len", "payload"}
    /\ c_count > 0
    /\ c_wire = <<>>
    /\ c_pc' = IF c_pc = "len" THEN "eof" ELSE "error"
    /\ UNCHANGED <<c_payload, c_sent, c_wire, c_recvs, c_count, c_buf,
                   c_length, c_result>>
    /\ UNCHANGED <<mvars, evars, svars, avars>>

\* lines 164, 170: recvall returns buf to recvint; a length of 0 is the
\* terminator, any other length is read with recvall(sock, length)
RecvIntReturn ==
    /\ c_pc = "len"
    /\ c_count = 0
    /\ c_length' = IntFromBytesLittle(c_buf)
    /\ IF c_length' = 0
       THEN c_pc' = "terminator" /\ UNCHANGED <<c_count, c_buf>>
       ELSE c_pc' = "payload" /\ c_count' = c_length' /\ c_buf' = <<>>
    /\ UNCHANGED <<c_payload, c_sent, c_wire, c_recvs, c_result>>
    /\ UNCHANGED <<mvars, evars, svars, avars>>

\* line 164: recvall(sock, length) returns the payload
RecvAllReturn ==
    /\ c_pc = "payload"
    /\ c_count = 0
    /\ c_result' = c_buf
    /\ c_pc' = "frame"
    /\ UNCHANGED <<c_payload, c_sent, c_wire, c_recvs, c_count, c_buf,
                   c_length>>
    /\ UNCHANGED <<mvars, evars, svars, avars>>

NextCodec ==
    \/ CodecSend
    \/ Recv
    \/ RecvClosed
    \/ RecvIntReturn
    \/ RecvAllReturn

SpecCodec == InitCodec /\ [][NextCodec]_vars

\* The peer wrote the whole frame before it closed
FrameComplete ==
    /\ Len(c_sent) >= Len(WriteFrame(c_payload))
    /\ SubSeq(c_sent, 1, Len(WriteFrame(c_payload))) = WriteFrame(c_payload)

\* C17: for any payload p, reading the frame produced by writing p returns
\* exactly p and consumes exactly the frame, however the bytes are split
\* across recv calls; an empty payload is read as length 0, the terminator,
\* not as an error.
C17_RoundTrip ==
    /\ c_pc = "frame" =>
          /\ FrameComplete
          /\ c_result = c_payload
          /\ c_payload # <<>>
    /\ c_pc = "terminator" =>
          /\ FrameComplete
          /\ c_payload = <<>>
          /\ c_length = 0
    /\ c_pc \in {"frame", "terminator"} =>
          c_wire = SubSeq(c_sent, Len(WriteFrame(c_payload)) + 1, Len(c_sent))
    /\ (FrameComplete /\ c_pc # "send") =>
          /\ c_pc \notin {"eof", "error"}
          /\ c_pc = "payload" => c_length = Len(c_payload)
          /\ c_pc \in {"len", "payload"} => (c_count > 0 => c_wire # <<>>)

\* A payload of MaxPayload bytes came back after being received one byte at
\* a time
C17_Witness ==
    /\ c_pc = "frame"
    /\ Len(c_payload) = MaxPayload
    /\ c_result = c_payload
    /\ c_recvs = 4 + MaxPayload

\* ========================================================================
\* align_recording  (process_recordings.py:397-503; the same function with
\* the legacy switch in align_camera_video.py:448-497). Times are integers
\* in seconds.
\* ========================================================================
\* line 136: the 1e9 of frame_timestamps[0] > 1e9
WallclockPtsThreshold == 1000000000

\* Variant: the manual override is switched on
LegacyAlignmentAllowed == TRUE

\* align_camera_video.py line 31; process_recordings.py has no such switch
\* and always raises
ALLOW_LEGACY_ALIGNMENT == FALSE

\* Timestamps of actions and frames: legacy PTS near zero, and epoch seconds
\* at and above the threshold
AlignTimes ==
    {1, WallclockPtsThreshold, WallclockPtsThreshold + 1,
     WallclockPtsThreshold + 2}

\* lines 124-138: _has_wallclock_timestamps(frame_timestamps, camera_meta)
HasWallclockTimestamps(ts, flag) ==
    \/ flag
    \/ ts # <<>> /\ ts[1] > WallclockPtsThreshold

\* An exception raised by align_recording itself
AlignError(kind) == <<[kind |-> kind, action |-> <<>>, frame |-> <<>>]>>

\* lines 397-420: actions loaded (_load_actions rejects an empty list) and
\* camera metadata read
InitAlign ==
    /\ MatchIdle
    /\ EncodeIdle
    /\ ServerIdle
    /\ CodecIdle
    /\ a_pc = "start"
    /\ a_actions \in AscendingSeqs(AlignTimes, MaxActions) \ {<<>>}
    /\ a_wallclock_flag \in BOOLEAN
    /\ a_extracted = <<>>
    /\ a_error = <<>>
    /\ out_aligned_meta = <<>>

\* line 425: frame_timestamps = _extract_frame_timestamps(recording_path):
\* None, or a non-empty sorted list (lines 67-121)
AlignExtract ==
    /\ a_pc = "start"
    /\ a_extracted' \in
          {<<>>} \cup {<<ts>> : ts \in AscendingSeqs(AlignTimes, MaxFrames)
                                         \ {<<>>}}
    /\ a_pc' = "extracted"
    /\ UNCHANGED <<a_actions, a_wallclock_flag, a_error, out_aligned_meta>>
    /\ UNCHANGED <<mvars, evars, svars, cvars>>

\* lines 426-440 (align_camera_video.py 476-497): use_wallclock; without it
\* RuntimeError, or _align_legacy when the override is on; with it the
\* matcher is called on the actions' epochTime and the frame timestamps
AlignClassify ==
    /\ a_pc = "extracted"
    /\ LET use_wallclock ==
              /\ a_extracted # <<>>
              /\ HasWallclockTimestamps(a_extracted[1], a_wallclock_flag)
       IN IF ~use_wallclock
          THEN /\ IF ~ALLOW_LEGACY_ALIGNMENT
                  THEN /\ a_pc' = "error"
                       /\ a_error' = AlignError("not_wallclock")
                  ELSE /\ a_pc' = "legacy"
                       /\ UNCHANGED a_error
               /\ UNCHANGED mvars
          ELSE /\ a_pc' = "matching"
               /\ m_pc' = "input"
               /\ action_times' = a_actions
               /\ frame_timestamps' = a_extracted[1]
               /\ fps' \in CameraFps
               /\ UNCHANGED <<a_error, frame_indices, diagnostics>>
    /\ UNCHANGED <<a_actions, a_wallclock_flag, a_extracted, out_aligned_meta>>
    /\ UNCHANGED <<evars, svars, cvars>>

\* Variant: the matcher's result is passed on even when it is empty
AlignCheckMatchedUnchecked ==
    /\ a_pc = "matching"
    /\ m_pc = "matched"
    /\ a_pc' = "encoding"
    /\ e_pc' = "start"
    /\ e_frame_indices' = frame_indices
    /\ \E t \in {Len(frame_timestamps) - 1, Len(frame_timestamps)} :
       \E d \in {t - 1, t} :
          /\ d >= 0
          /\ total_frames' = t
          /\ decodable' = d
    /\ UNCHANGED <<e_i, last_frame_idx, last_frame, cap_pos, written,
                   seeks_count, reads_count, cache_hits, e_error,
                   writer_state>>
    /\ UNCHANGED <<a_actions, a_wallclock_flag, a_extracted, a_error,
                   out_aligned_meta>>
    /\ UNCHANGED <<mvars, svars, cvars>>

\* lines 452-459: an empty frame_indices raises RuntimeError; otherwise
\* _write_frames_by_index(recording_path, frame_indices, ...) is called. The
\* recording's frame count is that of the timestamp list or one less, and
\* its last frame may fail to decode.
AlignCheckMatched ==
    /\ a_pc = "matching"
    /\ m_pc = "matched"
    /\ IF frame_indices = <<>>
       THEN /\ a_pc' = "error"
            /\ a_error' = AlignError("no_match")
            /\ UNCHANGED <<e_pc, e_frame_indices, total_frames, decodable>>
       ELSE /\ a_pc' = "encoding"
            /\ e_pc' = "start"
            /\ e_frame_indices' = frame_indices
            /\ \E t \in {Len(frame_timestamps) - 1, Len(frame_timestamps)} :
               \E d \in {t - 1, t} :
                  /\ d >= 0
                  /\ total_frames' = t
                  /\ decodable' = d
            /\ UNCHANGED a_error
    /\ UNCHANGED <<e_i, last_frame_idx, last_frame, cap_pos, written,
                   seeks_count, reads_count, cache_hits, e_error,
                   writer_state>>
    /\ UNCHANGED <<a_actions, a_wallclock_flag, a_extracted, out_aligned_meta>>
    /\ UNCHANGED <<mvars, svars, cvars>>

\* lines 461-485: the frame mapping is built and the metadata file written
AlignWriteMetadata ==
    /\ a_pc = "encoding"
    /\ e_pc = "done"
    /\ out_aligned_meta' =
          <<[alignment_mode |-> "wallclock",
             total_video_frames |-> Len(frame_timestamps),
             diagnostics |-> diagnostics,
             frame_mapping |-> frame_indices]>>
    /\ a_pc' = "done"
    /\ UNCHANGED <<a_actions, a_wallclock_flag, a_extracted, a_error>>
    /\ UNCHANGED <<mvars, evars, svars, cvars>>

\* line 459: the exception of _write_frames_by_index leaves align_recording
AlignAbort ==
    /\ a_pc = "encoding"
    /\ e_pc = "error"
    /\ a_error' = e_error
    /\ a_pc' = "error"
    /\ UNCHANGED <<a_actions, a_wallclock_flag, a_extracted, out_aligned_meta>>
    /\ UNCHANGED <<mvars, evars, svars, cvars>>

NextAlign ==
    \/ AlignExtract
    \/ AlignClassify
    \/ Match
    \/ AlignCheckMatched
    \/ EncStart
    \/ EncFinish
    \/ EncOutOfRange
    \/ EncCacheHit
    \/ EncSequentialRead
    \/ EncSeekRead
    \/ AlignWriteMetadata
    \/ AlignAbort

SpecAlign == InitAlign /\ [][NextAlign]_vars

\* align_recording has classified the extracted timestamps
AlignClassified == a_pc \notin {"idle", "start", "extracted"}

\* Timestamps are unavailable, or the flag is not set and the first
\* timestamp is <= 1e9
NotWallclock ==
    \/ a_extracted = <<>>
    \/ ~a_wallclock_flag /\ a_extracted[1][1] <= WallclockPtsThreshold

\* The output video file has not been created and nothing was written to it
NoAlignedVideo == writer_state = "none" /\ written = <<>>

\* C18: when the frame timestamps cannot be extracted, or are not classified
\* as wallclock (flag not set and first timestamp <= 1e9), align_recording
\* raises: the matcher is not run, no output is written, and there is no
\* fall-back to the legacy computed-index alignment.
C18_FailsLoudlyWithoutWallclock ==
    (AlignClassified /\ NotWallclock) =>
        /\ a_pc = "error"
        /\ a_error = AlignError("not_wallclock")
        /\ m_pc = "idle" /\ frame_indices = <<>>
        /\ e_pc = "idle"
        /\ NoAlignedVideo
        /\ out_aligned_meta = <<>>

\* Timestamps were extracted and start exactly at 1e9 without the flag
C18_Witness ==
    /\ a_pc = "error"
    /\ ~a_wallclock_flag
    /\ a_extracted # <<>>
    /\ a_extracted[1][1] = WallclockPtsThreshold
    /\ a_error = AlignError("not_wallclock")

\* C19: when the matcher returns an empty frame_indices, align_recording
\* raises before the output video file or the metadata file is created.
C19_EmptyMatchRaisesBeforeOutput ==
    /\ (m_pc = "matched" /\ frame_indices = <<>> /\ a_pc # "matching") =>
          /\ a_pc = "error"
          /\ a_error = AlignError("no_match")
          /\ e_pc = "idle"
          /\ NoAlignedVideo
          /\ out_aligned_meta = <<>>
    /\ a_pc = "matching" => NoAlignedVideo /\ out_aligned_meta = <<>>

\* Several actions, all later than the last frame of a wallclock recording
C19_Witness ==
    /\ a_pc = "error"
    /\ a_error = AlignError("no_match")
    /\ Len(action_times) >= 2
    /\ Len(frame_timestamps) >= 1
    /\ diagnostics.unmatched_actions_end = Len(action_times)

\* The re-encoder raised inside its loop
EncLoopError == e_pc = "error" /\ e_error[1].kind \in {"range", "read"}

C21_StalledReadTimesOut == client = "stalled" => ENABLED Reader

\* A capacity below what one client sends: MaxRecords pairs and the sentinel
QueueCapacity == MaxRecords

\* C22: the per-connection frame queue is bounded: in every reachable state
\* the number of waiting items is at most a fixed capacity, however far the
\* socket reader runs ahead of the worker.
C22_QueueBounded == Len(frame_queue) <= QueueCapacity

\* The main thread is inside processor.join() while the worker still runs
WaitingForWorker == r_pc = "join" /\ w_pc \notin {"done", "crashed"}

\* C23: the thread that accepts connections and reads the socket never
\* blocks on worker work: a received pair is enqueued without waiting, and no
\* step of the accept/read loop waits for the worker's timestamp math, video
\* encoding or file I/O.
C23_ReaderNeverWaitsForWorker == ~WaitingForWorker

\* The worker took an item it could not use: its coordinates raise at lines
\* 59-63, or (video capture enabled) its image is None or empty (lines 73-81)
BadItemTaken ==
    \E k \in 1..Len(deq_log) :
        /\ deq_log[k] # Sentinel
        /\ \/ ~deq_log[k].pos.coords
           \/ ~viewer_rendering_disabled /\ deq_log[k].img = <<>>

\* C24: an exception or an invalid image while processing one queued item
\* costs only that item's frame: the worker keeps running, every later item
\* and the sentinel are still taken, and the episode is still finalized
\* (trace and metadata written) once the sentinel has arrived.
C24_PerFrameErrorIsolation ==
    (WorkerEnded /\ BadItemTaken) =>
        /\ deq_log = recv_log \o <<Sentinel>>
        /\ w_pc = "done"
        /\ out_trace = <<action_data>>
        /\ out_meta # <<>>

\* The first item the worker took in this episode (position payload)
FirstProcessed == deq_log[1].pos

\* C25: the anchoring is decided once, by the first record the worker
\* processes: render_time_is_epoch holds iff that record's renderTime is at
\* least the epoch threshold, and first_render_time and episode_start_epoch
\* are those of that record for the rest of the episode. Every stored record
\* has relativeTimeMs = its renderTime - the first renderTime, and epochTime =
\* its renderTime in epoch mode, otherwise episode_start_epoch +
\* relativeTimeMs (all times in milliseconds).
C25_EpochAnchoring ==
    (deq_log # <<>> /\ deq_log[1] # Sentinel) =>
        /\ first_render_time = <<RenderTimeOf(FirstProcessed)>>
        /\ render_time_is_epoch
              <=> RenderTimeOf(FirstProcessed) >= RenderEpochThreshold
        /\ episode_start_epoch # <<>>
        /\ IF render_time_is_epoch
           THEN episode_start_epoch[1] = RenderTimeOf(FirstProcessed)
           ELSE episode_start_epoch[1] + RenderTimeOf(FirstProcessed)
                   \in WallClockMs
        /\ \A k \in 1..Len(action_data) :
              LET rec == action_data[k]
              IN /\ rec.relativeTimeMs
                       = RenderTimeOf(rec) - RenderTimeOf(FirstProcessed)
                 /\ rec.epochTime
                       = IF render_time_is_epoch THEN RenderTimeOf(rec)
                         ELSE episode_start_epoch[1] + rec.relativeTimeMs

\* Epoch mode chosen by the first record stays for a later record whose
\* renderTime is below the threshold
C25_Witness ==
    /\ w_pc = "done"
    /\ Len(action_data) = 2
    /\ render_time_is_epoch
    /\ action_data[1].relativeTimeMs = 0
    /\ RenderTimeOf(action_data[2]) < RenderEpochThreshold
    /\ action_data[2].relativeTimeMs < 0
    /\ out_meta[1].render_time_is_epoch

\* The pairs of consecutive frames (1-based index of the earlier frame) that
\* the dropped-frame diagnostic is documented to report: the gap exceeds 1.8
\* expected intervals and lies more than the grace period after the
\* recording start and more than the grace period before the recording end
DocumentedGaps(ft, f) ==
    { j \in 1..(Len(ft) - 1) :
        /\ GapExceedsThreshold(ft[j + 1] - ft[j], f)
        /\ ft[j] - ft[1] > BOUNDARY_GRACE_SEC * TicksPerSec
        /\ ft[Len(ft)] - ft[j + 1] > BOUNDARY_GRACE_SEC * TicksPerSec }

\* C26: dropped_frame_gaps reports a pair of consecutive frames if and only
\* if their time difference exceeds 1.8 / fps and the gap lies outside the
\* boundary grace window at both ends of the recording (each reported gap
\* with round(gap / expected_interval) - 1 missed frames).
C26_DroppedFrameGaps ==
    Matched =>
        diagnostics.dropped_frame_gaps
            = Cardinality(DocumentedGaps(frame_timestamps, fps))

\* The index decoded last before request k (1-based) of a run without error:
\* -1 before the first request, afterwards the previous request
PreviousRequest(k) == IF k = 1 THEN -1 ELSE e_frame_indices[k - 1]

\* Requests served so far
Served == 1..e_i

\* C27: access policy of the re-encoder. A request equal to the index of the
\* cached frame is re-emitted without decode or seek; a request equal to
\* last_frame_index + 1 is decoded sequentially without seek; a seek happens
\* only in the remaining case, which includes a first request other than 0.
\* Stated on the counters after every served request.
C27_AccessPolicy ==
    e_pc \in {"loop", "done"} =>
        /\ cache_hits = Cardinality({k \in Served :
              e_frame_indices[k] = PreviousRequest(k)})
        /\ reads_count = Cardinality({k \in Served :
              e_frame_indices[k] # PreviousRequest(k)})
        /\ seeks_count = Cardinality({k \in Served :
              /\ e_frame_indices[k] # PreviousRequest(k)
              /\ e_frame_indices[k] # PreviousRequest(k) + 1})
        /\ (e_i >= 1 /\ e_frame_indices[1] # 0) => seeks_count >= 1

\* A first request other than 0 (seek), its repetition (cache), the next
\* index (sequential read) and a step back (seek)
C27_Witness ==
    /\ e_pc = "done"
    /\ e_frame_indices = <<1, 1, 2, 0>>
    /\ cache_hits = 1
    /\ reads_count = 3
    /\ seeks_count = 2

\* C28: at the start of every loop iteration the decoder's read position is
\* last_frame_idx + 1, and for any in-range request sequence (ascending,
\* repeating or out of order) the frame written at output position i is the
\* source frame frame_indices[i], whether it came from the cache, from a
\* sequential read or from a read after a seek.
C28_OutputIsRequestedFrame ==
    e_pc \in {"loop", "done"} =>
        /\ cap_pos = last_frame_idx + 1
        /\ Len(written) = e_i
        /\ \A k \in 1..Len(written) :
              written[k].frame = e_frame_indices[k]

\* Out of order and repeating requests, all three ways of serving
C28_Witness ==
    /\ e_pc = "done"
    /\ e_frame_indices = <<2, 0, 1, 1>>
    /\ written = <<[pos |-> 0, frame |-> 2], [pos |-> 1, frame |-> 0],
                   [pos |-> 2, frame |-> 1], [pos |-> 3, frame |-> 1]>>
    /\ seeks_count = 2
    /\ cache_hits = 1

\* Positions (1-based) of the actions whose time precedes the first frame
EarlyActions ==
    IF frame_timestamps = <<>> THEN {}
    ELSE {k \in 1..Len(action_times) : action_times[k] < frame_timestamps[1]}

\* C29: an action earlier than the first frame is still matched: it gets
\* frame index 0 and is emitted in frame_indices, so n_matched includes it,
\* and it is also counted in unmatched_actions_start. Hence n_matched +
\* unmatched_actions_end = n_actions, and adding unmatched_actions_start
\* overshoots n_actions by exactly the number of early actions.
C29_EarlyActionsMatched ==
    Matched =>
        /\ \A k \in EarlyActions :
              /\ k <= Len(frame_indices)
              /\ frame_indices[k] = 0
        /\ diagnostics.unmatched_actions_start = Cardinality(EarlyActions)
        /\ diagnostics.n_matched = Len(frame_indices)
        /\ diagnostics.n_matched + diagnostics.unmatched_actions_end
              = diagnostics.n_actions
        /\ diagnostics.n_matched + diagnostics.unmatched_actions_start
              + diagnostics.unmatched_actions_end
              = diagnostics.n_actions + Cardinality(EarlyActions)

\* Two early actions matched to frame 0, one action after the last frame:
\* the three counters add up to more than n_actions
C29_Witness ==
    /\ Matched
    /\ Cardinality(EarlyActions) = 2
    /\ frame_indices[1] = 0 /\ frame_indices[2] = 0
    /\ diagnostics.unmatched_actions_start = 2
    /\ diagnostics.unmatched_actions_end = 1
    /\ diagnostics.n_matched + diagnostics.unmatched_actions_start
          + diagnostics.unmatched_actions_end > diagnostics.n_actions

\* The worker thread of the current episode has been started and has not
\* ended
WorkerAlive == w_pc \notin {"none", "done", "crashed"}

\* C30: connections are served strictly one at a time. The server is at
\* accept() only when no worker is alive (the previous worker finished its
\* finalization or failed) and the previous connection is closed; a live
\* worker always belongs to the open connection that the main thread is
\* reading or finishing, and no worker exists while a header is being read.
\* So one worker at most is alive, fed by the one socket reader.
C30_OneConnectionAtATime ==
    /\ r_pc = "accept" =>
          /\ ~WorkerAlive
          /\ conn_state \in {"none", "closed"}
    /\ r_pc \in {"hdr_len", "hdr_body", "hdr_parse"} => w_pc = "none"
    /\ WorkerAlive =>
          /\ conn_state = "open"
          /\ r_pc \in {"pos_len", "pos_body", "img_len", "img_body",
                       "finally", "join"}
    /\ r_pc = "close" => ~WorkerAlive /\ w_pc # "none"

\* The second connection is being served by its own worker after the first
\* episode ended
C30_Witness ==
    /\ conns = 2
    /\ WorkerAlive
    /\ w_pc = "loop"
    /\ recv_log # <<>>
    /\ r_pc = "pos_len"

====
